---------------------------- MODULE Spec2Model ----------------------------
(***************************************************************************)
(* Model of qutebrowser/commands/managers.py: the CommandManager (parse,   *)
(* run, run_safely, run_safely_init), split_cmdline and the SearchManager. *)
(*                                                                         *)
(* A text is a sequence of one-character strings, so that str.strip,       *)
(* str.split, str.endswith and the ';;' chain split are computed character *)
(* by character as Python computes them.                                   *)
(***************************************************************************)
EXTENDS Integers, Sequences, FiniteSets, TLC

(***************************************************************************)
(* Bounds of the model.                                                    *)
(***************************************************************************)
\* longest text handed to a single parse call in ParseSpec
MaxLen == 5
\* most segments joined by ';;' in a text handed to run / run_safely
MaxChain == 2
\* largest count handed to search_next / search_prev
MaxCount == 2
\* largest minimum arity of the commands handed to the tokenizer alone
MaxArity == 3
\* longest argument text handed to the tokenizer alone
MaxRest == 7

(***************************************************************************)
(* Characters and texts.                                                   *)
(***************************************************************************)
SP == " "
SEMI == ";"
QUOTE == "'"

\* the characters texts are made of: three registered command names, one
\* unregistered letter, the space, the quote
Alphabet == {"o", "s", "q", "x", SP, QUOTE}

Texts == UNION {[1..n -> Alphabet] : n \in 0..MaxLen}

\* the chain delimiter of run: the literal ';;'
ChainSep == <<SEMI, SEMI>>

\* str.isspace for the characters of the model
IsSpace(c) == c = SP

\* text.endswith(' ')
EndsWithSpace(s) == Len(s) > 0 /\ s[Len(s)] = SP

RECURSIVE LStrip(_)
LStrip(s) ==
    IF s = <<>> THEN <<>>
    ELSE IF IsSpace(Head(s)) THEN LStrip(Tail(s)) ELSE s

RECURSIVE RStrip(_)
RStrip(s) ==
    IF s = <<>> THEN <<>>
    ELSE IF IsSpace(s[Len(s)]) THEN RStrip(SubSeq(s, 1, Len(s) - 1)) ELSE s

\* str.strip()
Strip(s) == LStrip(RStrip(s))

\* length of the leading run of non-whitespace characters of s
RECURSIVE WordLen(_)
WordLen(s) ==
    IF s = <<>> \/ IsSpace(Head(s)) THEN 0 ELSE 1 + WordLen(Tail(s))

\* str.split(maxsplit=m) with no separator: runs of whitespace separate the
\* words, at most m splits are made (m < 0: no limit), and once m splits are
\* made the rest of the text, leading whitespace skipped, is the last word
RECURSIVE SplitWs(_, _)
SplitWs(s, m) ==
    LET t == LStrip(s)
        k == WordLen(t)
    IN  IF t = <<>> THEN <<>>
        ELSE IF m = 0 THEN <<t>>
        ELSE <<SubSeq(t, 1, k)>> \o SplitWs(SubSeq(t, k + 1, Len(t)), m - 1)

\* the least index from i on at which sep occurs in s, 0 when it does not
RECURSIVE FindFrom(_, _, _)
FindFrom(s, sep, i) ==
    IF i + Len(sep) - 1 > Len(s) THEN 0
    ELSE IF SubSeq(s, i, i + Len(sep) - 1) = sep THEN i
    ELSE FindFrom(s, sep, i + 1)

\* str.find(sep) + 1
Find(s, sep) == FindFrom(s, sep, 1)

\* sep in s
Contains(s, sep) == Find(s, sep) # 0

\* str.split(sep): left to right, non-overlapping
RECURSIVE SplitOn(_, _)
SplitOn(s, sep) ==
    LET i == Find(s, sep)
    IN  IF i = 0 THEN <<s>>
        ELSE <<SubSeq(s, 1, i - 1)>>
                 \o SplitOn(SubSeq(s, i + Len(sep), Len(s)), sep)

\* sep.join(parts)
RECURSIVE Join(_, _)
Join(parts, sep) ==
    IF parts = <<>> THEN <<>>
    ELSE IF Len(parts) = 1 THEN parts[1]
    ELSE parts[1] \o sep \o Join(Tail(parts), sep)

\* safe_shlex_split: shell-style split that never fails. Whitespace separates
\* the tokens, a quote groups characters (whitespace included) into the
\* token in progress, an empty pair of quotes is an empty token, and a quote
\* left open is closed at the end of the text.
RECURSIVE ShlexScan(_, _, _, _)
ShlexScan(s, cur, mode, acc) ==
    IF s = <<>> THEN (IF mode = "none" THEN acc ELSE Append(acc, cur))
    ELSE LET c == Head(s)
             r == Tail(s)
         IN  IF mode = "quote"
             THEN IF c = QUOTE THEN ShlexScan(r, cur, "word", acc)
                  ELSE ShlexScan(r, Append(cur, c), "quote", acc)
             ELSE IF IsSpace(c)
             THEN ShlexScan(r, <<>>, "none",
                            IF mode = "word" THEN Append(acc, cur) ELSE acc)
             ELSE IF c = QUOTE THEN ShlexScan(r, cur, "quote", acc)
             ELSE ShlexScan(r, Append(cur, c), "word", acc)

safe_shlex_split(s) == ShlexScan(s, <<>>, "none", <<>>)

(***************************************************************************)
(* The collaborators: command registry, alias configuration.               *)
(***************************************************************************)
\* cmdutils.cmd_dict: name -> Command (split, nargs = (min, max))
cmd_dict ==
    [n \in {<<"o">>, <<"s">>, <<"q">>} |->
        IF n = <<"o">> THEN [split |-> TRUE, nargs |-> <<1, 1>>]
        ELSE IF n = <<"s">> THEN [split |-> FALSE, nargs |-> <<1, 1>>]
        ELSE [split |-> FALSE, nargs |-> <<0, 0>>]]

\* the [aliases] section of the configuration, as it may be set:
\*   no alias at all;
\*   x -> o (an alias of a command), xx -> xx (a self-referencing alias),
\*   xxx -> x (an alias whose replacement is an alias name);
\*   o -> s (an alias named like a registered command), x -> 'o x' (an alias
\*   with an argument), xx -> xxx and xxx -> xx (a cycle of two aliases)
AliasTables ==
    { [n \in {} |-> <<>>],
      [n \in {<<"x">>, <<"x", "x">>, <<"x", "x", "x">>} |->
          IF n = <<"x">> THEN <<"o">>
          ELSE IF n = <<"x", "x">> THEN <<"x", "x">>
          ELSE <<"x">>],
      [n \in {<<"o">>, <<"x">>, <<"x", "x">>, <<"x", "x", "x">>} |->
          IF n = <<"o">> THEN <<"s">>
          ELSE IF n = <<"x">> THEN <<"o", SP, "x">>
          ELSE IF n = <<"x", "x">> THEN <<"x", "x", "x">>
          ELSE <<"x", "x">>] }

\* CommandManager._cmd = None
NoCmd == <<>>

NoSuchCommandError == "NoSuchCommandError"
ArgumentCountError == "ArgumentCountError"
CommandError == "CommandError"
NoError == ""

VARIABLES
    aliases,    \* config section 'aliases': alias name -> replacement text
    failing,    \* registered commands whose handler raises CommandError
    _cmd,       \* CommandManager._cmd: name of the command last parsed
    _args,      \* CommandManager._args: the arguments last parsed
    pc,         \* "idle": in the event loop; "done": a call has returned
    op,         \* the method last called
    inText,     \* its text argument
    inCount,    \* its count argument
    ret,        \* the list parse returned (<<>> when it raised)
    hops,       \* alias substitutions the last parse call made
    raised,     \* the error the last call propagated to its caller
    trace,      \* what the last run did, in order
    msgs,       \* what the last call reported to message.error
    tcmd,       \* the Command whose arguments were last tokenized on their own
    tparts,     \* the parts (name, argument text) that were tokenized
    targs,      \* the arguments the tokenizer made of them
    _text,      \* SearchManager._text: the text of the last search
    _flags,     \* SearchManager._flags: the flags of the last search
    ignore_case, \* config general/ignore-case
    wrap_search, \* config general/wrap-search
    sop,        \* the SearchManager method last called
    sText,      \* its text argument
    sCount,     \* its count argument
    emitted,    \* the do_search signals the last call emitted, in order
    searched    \* the do_search signal of the last search / search_rev call

tkVars == <<tcmd, tparts, targs>>

cmVars == <<aliases, failing, _cmd, _args, pc, op, inText, inCount, ret,
            hops, raised, trace, msgs, tkVars>>

smVars == <<_text, _flags, ignore_case, wrap_search, sop, sText, sCount,
            emitted, searched>>

vars == <<cmVars, smVars>>

(***************************************************************************)
(* CommandManager.parse                                                    *)
(***************************************************************************)
\* ParseRaise with the manager's fields reset before the lookup
ParseRaiseReset(st, depth) ==
    [err |-> NoSuchCommandError, cmd |-> NoCmd, args |-> <<>>,
     ret |-> <<>>, hops |-> depth]

\* raise NoSuchCommandError: the manager st = [cmd, args] is what it was
ParseRaise(st, depth) ==
    [err |-> NoSuchCommandError, cmd |-> st.cmd, args |-> st.args,
     ret |-> <<>>, hops |-> depth]

\* the text the alias branch re-parses
AliasText(alias, parts, text) ==
    (IF Len(parts) > 1 THEN alias \o <<SP>> \o parts[2] ELSE alias)
        \o (IF EndsWithSpace(text) THEN <<SP>> ELSE <<>>)

\* ReparseAliases with the first re-parse still expanding aliases
ReparseOnce(depth) == depth = 0

\* the value of 'aliases' the alias branch passes to the re-parse
ReparseAliases(depth) == FALSE

\* Tokenize with maxsplit=cmd.nargs[0]
TokenizeMaxsplitMin(cmd, parts) ==
    IF Len(parts) = 1 THEN <<>>
    ELSE IF cmd.split THEN safe_shlex_split(parts[2])
    ELSE SplitWs(parts[2], cmd.nargs[1])

\* the arguments of a registered command
Tokenize(cmd, parts) ==
    IF Len(parts) = 1 THEN <<>>
    ELSE IF cmd.split THEN safe_shlex_split(parts[2])
    ELSE SplitWs(parts[2], cmd.nargs[1] - 1)

\* the tokenizer of parse on its own: the text of a command cmd, whatever its
\* declared arity, is split into parts and the arguments are made of them
CallTokenize(cmd, text) ==
    /\ pc = "idle"
    /\ tcmd' = cmd
    /\ tparts' = SplitWs(Strip(text), 1)
    /\ targs' = Tokenize(cmd, SplitWs(Strip(text), 1))
    /\ pc' = "done"
    /\ op' = "tokenize"
    /\ UNCHANGED <<aliases, failing, _cmd, _args, inText, inCount, ret,
                   hops, raised, trace, msgs, smVars>>

\* RetArgs without the 'cmd.split is True' alternative
RetArgsBelowMinOnly(text, cmd, args) ==
    IF EndsWithSpace(text) /\ Len(args) < cmd.nargs[1]
    THEN Append(args, <<>>)
    ELSE args

\* RetArgs with the '' put before the arguments, not after them
RetArgsMarkFirst(text, cmd, args) ==
    IF EndsWithSpace(text) /\ (cmd.split = TRUE \/ Len(args) < cmd.nargs[1])
    THEN <<<<>>>> \o args
    ELSE args

\* the arguments parse returns: a trailing '' marks an argument being typed
RetArgs(text, cmd, args) ==
    IF EndsWithSpace(text) /\ (cmd.split = TRUE \/ Len(args) < cmd.nargs[1])
    THEN Append(args, <<>>)
    ELSE args

\* ParseFound returning the arguments without the command name before them
ParseFoundArgsOnly(text, cmdstr, args, depth) ==
    [err |-> NoError, cmd |-> cmdstr, args |-> args,
     ret |-> RetArgs(text, cmd_dict[cmdstr], args),
     hops |-> depth]

\* ParseFound storing the arguments it returns, the trailing '' with them
ParseFoundStoreRet(text, cmdstr, args, depth) ==
    [err |-> NoError, cmd |-> cmdstr,
     args |-> RetArgs(text, cmd_dict[cmdstr], args),
     ret |-> <<cmdstr>> \o RetArgs(text, cmd_dict[cmdstr], args),
     hops |-> depth]

\* the command is registered: its arguments are stored and returned
ParseFound(text, cmdstr, args, depth) ==
    [err |-> NoError, cmd |-> cmdstr, args |-> args,
     ret |-> <<cmdstr>> \o RetArgs(text, cmd_dict[cmdstr], args),
     hops |-> depth]

\* parse from its second statement on: parts is text.strip().split(maxsplit=1)
RECURSIVE ParseParts(_, _, _, _, _)

\* ParseParts with the registry looked up before the alias section
ParsePartsRegistryFirst(text, parts, al, depth, st) ==
    IF parts = <<>> THEN ParseRaise(st, depth)
    ELSE IF parts[1] \in DOMAIN cmd_dict
    THEN ParseFound(text, parts[1], Tokenize(cmd_dict[parts[1]], parts), depth)
    ELSE IF al /\ parts[1] \in DOMAIN aliases
    THEN ParseParts(AliasText(aliases[parts[1]], parts, text),
                    SplitWs(Strip(AliasText(aliases[parts[1]], parts, text)), 1),
                    ReparseAliases(depth), depth + 1, st)
    ELSE ParseRaise(st, depth)

ParseParts(text, parts, al, depth, st) ==
    IF parts = <<>> THEN ParseRaise(st, depth)
    ELSE IF al /\ parts[1] \in DOMAIN aliases
    THEN ParseParts(AliasText(aliases[parts[1]], parts, text),
                    SplitWs(Strip(AliasText(aliases[parts[1]], parts, text)), 1),
                    ReparseAliases(depth), depth + 1, st)
    ELSE IF parts[1] \notin DOMAIN cmd_dict THEN ParseRaise(st, depth)
    ELSE ParseFound(text, parts[1], Tokenize(cmd_dict[parts[1]], parts), depth)

\* parse(text, aliases) on the manager st = [cmd, args]; depth counts the
\* alias substitutions made so far. The result holds the manager's fields
\* after the call, the returned list and the error raised.
parse(text, al, depth, st) ==
    ParseParts(text, SplitWs(Strip(text), 1), al, depth, st)

\* the manager as a record
Manager == [cmd |-> _cmd, args |-> _args]

\* a call of parse(text) from the event loop
CallParse(text) ==
    /\ pc = "idle"
    /\ LET r == parse(text, TRUE, 0, Manager)
       IN  /\ _cmd' = r.cmd
           /\ _args' = r.args
           /\ ret' = r.ret
           /\ hops' = r.hops
           /\ raised' = r.err
    /\ pc' = "done"
    /\ op' = "parse"
    /\ inText' = text
    /\ UNCHANGED <<aliases, failing, inCount, trace, msgs, tkVars, smVars>>

(***************************************************************************)
(* split_cmdline                                                           *)
(***************************************************************************)
\* parts = text.split(' '), and parts.append('') if text.endswith(' ')
SplitFallback(text) ==
    SplitOn(text, <<SP>>) \o (IF EndsWithSpace(text) THEN <<<<>>>> ELSE <<>>)

\* parts after the try statement: r is what manager.parse(text) did
SplitParts(text, r) ==
    IF r.err = NoSuchCommandError THEN SplitFallback(text) ELSE r.ret

\* 'if len(parts) == 1 and parts[0]: parts = original_cmd', and the return
SplitReturn(original_cmd, parts) ==
    IF Len(parts) = 1 /\ parts[1] # <<>> THEN original_cmd ELSE parts

\* split_cmdline(text): the manager is a new CommandManager
split_cmdline(text) ==
    SplitReturn(SplitWs(Strip(text), 1),
                SplitParts(text, parse(text, TRUE, 0,
                                       [cmd |-> NoCmd, args |-> <<>>])))

\* a call of split_cmdline(text): no manager but its own is touched
CallSplitCmdline(text) ==
    /\ pc = "idle"
    /\ ret' = split_cmdline(text)
    /\ raised' = NoError
    /\ hops' = 0
    /\ pc' = "done"
    /\ op' = "split_cmdline"
    /\ inText' = text
    /\ UNCHANGED <<aliases, failing, _cmd, _args, inCount, trace, msgs,
                   tkVars, smVars>>

(***************************************************************************)
(* CommandManager.run, run_safely, run_safely_init                         *)
(***************************************************************************)
\* count=None
NoCount == -1

\* one entry of the trace of a call
Event(ev, text, cmd, args, count, err) ==
    [ev |-> ev, text |-> text, cmd |-> cmd, args |-> args, count |-> count,
     err |-> err]

ParseEv(text) == Event("parse", text, NoCmd, <<>>, NoCount, NoError)
CheckEv(cmd, args) == Event("check", <<>>, cmd, args, NoCount, NoError)
InvokeEv(cmd, args, count) == Event("invoke", <<>>, cmd, args, count, NoError)
RaiseEv(err) == Event("raise", <<>>, NoCmd, <<>>, NoCount, err)

\* an exception leaves the method: c = [cmd, args, trace, err] is the
\* manager and the trace so far
Raise(c, err) == [c EXCEPT !.trace = Append(@, RaiseEv(err)), !.err = err]

\* Command.check(args): the argument count is within nargs = (min, max)
CommandCheck(name, args) ==
    /\ cmd_dict[name].nargs[1] <= Len(args)
    /\ Len(args) <= cmd_dict[name].nargs[2]

\* _check with the result of Command.check dropped
_check_unchecked(c) ==
    [c EXCEPT !.trace = Append(@, CheckEv(c.cmd, c.args))]

\* CommandManager._check
_check(c) ==
    IF CommandCheck(c.cmd, c.args)
    THEN [c EXCEPT !.trace = Append(@, CheckEv(c.cmd, c.args))]
    ELSE Raise([c EXCEPT !.trace = Append(@, CheckEv(c.cmd, c.args))],
               ArgumentCountError)

\* CommandManager._run: the handler is invoked with the stored arguments
_run(count, c) ==
    IF c.cmd \in failing
    THEN Raise([c EXCEPT !.trace = Append(@, InvokeEv(c.cmd, c.args, count))],
               CommandError)
    ELSE [c EXCEPT !.trace = Append(@, InvokeEv(c.cmd, c.args, count))]

\* run's call of parse returned r: the stored pair is what parse left
Parsed(text, c, r) ==
    IF r.err # NoError
    THEN Raise([c EXCEPT !.trace = Append(@, ParseEv(text))], r.err)
    ELSE [c EXCEPT !.trace = Append(@, ParseEv(text)),
                   !.cmd = r.cmd, !.args = r.args]

\* self.parse(text)
RunParse(text, c) ==
    Parsed(text, c, parse(text, TRUE, 0, [cmd |-> c.cmd, args |-> c.args]))

\* ThenRun with the handler never invoked
ThenRunNothing(count, c) == c

\* self._run(count=count), unless an exception has left run
ThenRun(count, c) == IF c.err # NoError THEN c ELSE _run(count, c)

\* self._check(), unless an exception has left run
ThenCheck(c) == IF c.err # NoError THEN c ELSE _check(c)

\* parse, _check, _run in this order
RunOne(text, count, c) == ThenRun(count, ThenCheck(RunParse(text, c)))

\* the rest of the loop 'for sub in text.split(';;'): self.run(sub, count)'
\* once the call for one segment has returned c: an exception ends it
RECURSIVE RunPending(_, _, _)

\* RunRest with the exception of a segment swallowed inside the loop
RunRestContinue(texts, count, c) ==
    RunPending(texts, count, [c EXCEPT !.err = NoError])

RunRest(texts, count, c) ==
    IF c.err # NoError THEN c ELSE RunPending(texts, count, c)

\* RunPending with the count not handed on to the segments
RunPendingDropCount(texts, count, c) ==
    IF texts = <<>> THEN c
    ELSE IF Contains(Head(texts), ChainSep)
    THEN RunPending(SplitOn(Head(texts), ChainSep) \o Tail(texts), NoCount, c)
    ELSE RunRest(Tail(texts), count, RunOne(Head(texts), count, c))

\* the calls of run still to make, leftmost first: a text holding ';;' is
\* replaced by its segments, any other text is parsed, checked and run
RunPending(texts, count, c) ==
    IF texts = <<>> THEN c
    ELSE IF Contains(Head(texts), ChainSep)
    THEN RunPending(SplitOn(Head(texts), ChainSep) \o Tail(texts), count, c)
    ELSE RunRest(Tail(texts), count, RunOne(Head(texts), count, c))

\* CommandManager.run
run(text, count, c) == RunPending(<<text>>, count, c)

\* CommandMetaError and its subclasses
IsCommandMetaError(e) == e \in {NoSuchCommandError, ArgumentCountError}

\* Caught with the except clause naming CommandMetaError alone
CaughtMetaOnly(e) == IsCommandMetaError(e)

\* except (CommandMetaError, CommandError)
Caught(e) == IsCommandMetaError(e) \/ e = CommandError

\* the manager and an empty trace, at the start of a call
Context == [cmd |-> _cmd, args |-> _args, trace |-> <<>>, err |-> NoError]

\* a call of run(text, count) from the event loop
CallRun(text, count) ==
    /\ pc = "idle"
    /\ LET c == run(text, count, Context)
       IN  /\ _cmd' = c.cmd
           /\ _args' = c.args
           /\ trace' = c.trace
           /\ raised' = c.err
    /\ msgs' = <<>>
    /\ pc' = "done"
    /\ op' = "run"
    /\ inText' = text
    /\ inCount' = count
    /\ UNCHANGED <<aliases, failing, ret, hops, tkVars, smVars>>

\* run_safely (queue = FALSE) and run_safely_init (queue = TRUE)
RunSafelyWith(text, count, queue, name) ==
    /\ pc = "idle"
    /\ LET c == run(text, count, Context)
       IN  /\ _cmd' = c.cmd
           /\ _args' = c.args
           /\ trace' = c.trace
           /\ IF Caught(c.err)
              THEN /\ msgs' = <<[err |-> c.err, queue |-> queue]>>
                   /\ raised' = NoError
              ELSE /\ msgs' = <<>>
                   /\ raised' = c.err
    /\ pc' = "done"
    /\ op' = name
    /\ inText' = text
    /\ inCount' = count
    /\ UNCHANGED <<aliases, failing, ret, hops, tkVars, smVars>>

CallRunSafely(text, count) == RunSafelyWith(text, count, FALSE, "run_safely")

CallRunSafelyInit(text, count) ==
    RunSafelyWith(text, count, TRUE, "run_safely_init")

\* the call's outcome has been taken by its caller: back in the event loop,
\* the manager keeps its fields
Return ==
    /\ pc = "done"
    /\ pc' = "idle"
    /\ op' = "init"
    /\ inText' = <<>>
    /\ inCount' = 0
    /\ ret' = <<>>
    /\ hops' = 0
    /\ raised' = NoError
    /\ trace' = <<>>
    /\ msgs' = <<>>
    /\ tcmd' = [split |-> FALSE, nargs |-> <<0, 0>>]
    /\ tparts' = <<>>
    /\ targs' = <<>>
    /\ UNCHANGED <<aliases, failing, _cmd, _args, smVars>>

(***************************************************************************)
(* Inputs of the dispatcher.                                               *)
(***************************************************************************)
\* the segments the lines handed to run are chained from:
\* '', 'o x ', 'q', 'q x', 'x', 'xxx'
RunSegs ==
    { <<>>, <<"o", SP, "x", SP>>, <<"q">>, <<"q", SP, "x">>, <<"x">>,
      <<"x", "x", "x">> }

\* one to MaxChain segments joined by ';;'
RunTexts ==
    {Join(ch, ChainSep) : ch \in UNION {[1..n -> RunSegs] : n \in 1..MaxChain}}

RunCounts == {NoCount, 2}

(***************************************************************************)
(* SearchManager                                                           *)
(***************************************************************************)
\* QWebPage.FindFlag
FindBackward == 1
FindCaseSensitively == 2
FindWrapsAroundDocument == 4

\* SearchManager._text = None
NoText == "None"

\* the texts searched for
SearchTexts == {"", "a", "b"}

\* flags & f
HasFlag(flags, f) == (flags \div f) % 2 = 1

\* flags |= f
SetFlag(flags, f) == IF HasFlag(flags, f) THEN flags ELSE flags + f

\* flags &= ~f
ClearFlag(flags, f) == IF HasFlag(flags, f) THEN flags - f ELSE flags

\* one do_search signal
Signal(text, flags) == [text |-> text, flags |-> flags]

\* the flags _search stores: from 0, the configuration and the direction
SearchFlags(rev) ==
    LET f1 == IF ignore_case THEN SetFlag(0, FindCaseSensitively) ELSE 0
        f2 == IF wrap_search THEN SetFlag(f1, FindWrapsAroundDocument) ELSE f1
    IN  IF rev THEN SetFlag(f2, FindBackward) ELSE f2

\* ClearSignal without the comparison of the texts
ClearSignalAlways(text) ==
    IF _text # NoText THEN <<Signal("", 0)>> ELSE <<>>

\* the signal _search emits first when another text was searched before
ClearSignal(text) ==
    IF _text # NoText /\ _text # text THEN <<Signal("", 0)>> ELSE <<>>

\* _search forgetting the text when the empty text is searched for
_search_forgets_empty(text, rev, name) ==
    /\ _text' = IF text = "" THEN NoText ELSE text
    /\ _flags' = SearchFlags(rev)
    /\ emitted' = ClearSignal(text) \o <<Signal(text, SearchFlags(rev))>>
    /\ searched' = Signal(text, SearchFlags(rev))
    /\ sop' = name
    /\ sText' = text
    /\ sCount' = 0
    /\ UNCHANGED <<ignore_case, wrap_search, cmVars>>

\* SearchManager._search(text, rev), called as the method name
_search(text, rev, name) ==
    /\ _text' = text
    /\ _flags' = SearchFlags(rev)
    /\ emitted' = ClearSignal(text) \o <<Signal(text, SearchFlags(rev))>>
    /\ searched' = Signal(text, SearchFlags(rev))
    /\ sop' = name
    /\ sText' = text
    /\ sCount' = 0
    /\ UNCHANGED <<ignore_case, wrap_search, cmVars>>

\* SearchManager.search
search(text) == _search(text, FALSE, "search")

\* SearchManager.search_rev
search_rev(text) == _search(text, TRUE, "search_rev")

\* count signals, each sig
Repeat(count, sig) == [i \in 1..count |-> sig]

\* search_next emitting once, whatever the count
search_next_once(count) ==
    /\ emitted' = IF _text # NoText THEN <<Signal(_text, _flags)>> ELSE <<>>
    /\ sop' = "search_next"
    /\ sText' = ""
    /\ sCount' = count
    /\ UNCHANGED <<_text, _flags, searched, ignore_case, wrap_search, cmVars>>

\* search_next with the flags derived again from the configuration
search_next_reconfigured(count) ==
    /\ emitted' =
           IF _text # NoText
           THEN Repeat(count, Signal(_text,
                           SearchFlags(HasFlag(_flags, FindBackward))))
           ELSE <<>>
    /\ sop' = "search_next"
    /\ sText' = ""
    /\ sCount' = count
    /\ UNCHANGED <<_text, _flags, searched, ignore_case, wrap_search, cmVars>>

\* SearchManager.search_next
search_next(count) ==
    /\ emitted' = IF _text # NoText THEN Repeat(count, Signal(_text, _flags))
                  ELSE <<>>
    /\ sop' = "search_next"
    /\ sText' = ""
    /\ sCount' = count
    /\ UNCHANGED <<_text, _flags, searched, ignore_case, wrap_search, cmVars>>

\* the local flags of search_prev: a copy of _flags, FindBackward toggled
PrevFlags(flags) ==
    IF HasFlag(flags, FindBackward) THEN ClearFlag(flags, FindBackward)
    ELSE SetFlag(flags, FindBackward)

\* search_prev toggling the stored flags themselves, not a copy
search_prev_in_place(count) ==
    /\ emitted' = IF _text = NoText THEN <<>>
                  ELSE Repeat(count, Signal(_text, PrevFlags(_flags)))
    /\ _flags' = IF _text = NoText THEN _flags ELSE PrevFlags(_flags)
    /\ sop' = "search_prev"
    /\ sText' = ""
    /\ sCount' = count
    /\ UNCHANGED <<_text, searched, ignore_case, wrap_search, cmVars>>

\* SearchManager.search_prev
search_prev(count) ==
    /\ emitted' = IF _text = NoText THEN <<>>
                  ELSE Repeat(count, Signal(_text, PrevFlags(_flags)))
    /\ sop' = "search_prev"
    /\ sText' = ""
    /\ sCount' = count
    /\ UNCHANGED <<_text, _flags, searched, ignore_case, wrap_search, cmVars>>

\* the user sets general/ignore-case and general/wrap-search
SetConfig(ic, wrap) ==
    /\ ignore_case' = ic
    /\ wrap_search' = wrap
    /\ sop' = "set_config"
    /\ sText' = ""
    /\ sCount' = 0
    /\ emitted' = <<>>
    /\ UNCHANGED <<_text, _flags, searched, cmVars>>

\* SearchManager.__init__
SmInit ==
    /\ _text = NoText
    /\ _flags = 0
    /\ sop = "init"
    /\ sText = ""
    /\ sCount = 0
    /\ emitted = <<>>
    /\ searched = Signal(NoText, 0)

\* CommandManager.__init__
CmInit ==
    /\ _cmd = NoCmd
    /\ _args = <<>>
    /\ pc = "idle"
    /\ op = "init"
    /\ inText = <<>>
    /\ inCount = 0
    /\ ret = <<>>
    /\ hops = 0
    /\ raised = NoError
    /\ trace = <<>>
    /\ msgs = <<>>
    /\ tcmd = [split |-> FALSE, nargs |-> <<0, 0>>]
    /\ tparts = <<>>
    /\ targs = <<>>

\* a session: one of the alias configurations, the handler of q raising
\* CommandError or no handler raising
Init ==
    /\ aliases \in AliasTables
    /\ CmInit
    /\ failing \in {{}, {<<"q">>}}
    /\ SmInit
    /\ ignore_case = FALSE
    /\ wrap_search = FALSE

\* the calls made from the event loop
ParseCalls == pc = "idle" /\ \E text \in RunTexts : CallParse(text)

RunCalls ==
    pc = "idle" /\ \E text \in RunTexts, count \in RunCounts :
                       CallRun(text, count)

RunSafelyCalls ==
    pc = "idle" /\ \E text \in RunTexts, count \in RunCounts :
                       CallRunSafely(text, count)

RunSafelyInitCalls ==
    pc = "idle" /\ \E text \in RunTexts, count \in RunCounts :
                       CallRunSafelyInit(text, count)

Next ==
    \/ ParseCalls
    \/ RunCalls
    \/ RunSafelyCalls
    \/ RunSafelyInitCalls
    \/ Return

\* the manager of a session: any sequence of parse, run, run_safely and
\* run_safely_init calls
Spec == Init /\ [][Next]_vars

\* a fresh manager under one of the alias configurations
ParseInit ==
    /\ aliases \in AliasTables
    /\ CmInit
    /\ failing = {}
    /\ SmInit
    /\ ignore_case = FALSE
    /\ wrap_search = FALSE

ParseTextCalls == pc = "idle" /\ \E text \in Texts : CallParse(text)

SplitCmdlineCalls == pc = "idle" /\ \E text \in Texts : CallSplitCmdline(text)

ParseNext == ParseTextCalls \/ SplitCmdlineCalls

\* one parse call on a fresh manager, or one split_cmdline call, for every
\* text up to MaxLen
ParseSpec == ParseInit /\ [][ParseNext]_vars

\* the commands handed to the tokenizer: free-splitting or not, every
\* minimum arity up to MaxArity
Commands ==
    {[split |-> sp, nargs |-> <<mn, mn>>] : sp \in BOOLEAN, mn \in 0..MaxArity}

\* the texts handed to the tokenizer: a command name, a space and an
\* argument text of words and spaces
ArgTexts ==
    {<<"s", SP>> \o rest : rest \in UNION {[1..n -> {"x", SP}] : n \in 0..MaxRest}}

TokenizeInit ==
    /\ aliases = [n \in {} |-> <<>>]
    /\ CmInit
    /\ failing = {}
    /\ SmInit
    /\ ignore_case = FALSE
    /\ wrap_search = FALSE

TokenizeCalls ==
    pc = "idle" /\ \E cmd \in Commands, text \in ArgTexts :
                       CallTokenize(cmd, text)

TokenizeNext == TokenizeCalls \/ Return

\* the tokenizer applied to every command and argument text of the bounds
TokenizeSpec == TokenizeInit /\ [][TokenizeNext]_vars

\* a fresh search manager under any configuration of the two options
SearchInit ==
    /\ aliases = [n \in {} |-> <<>>]
    /\ CmInit
    /\ failing = {}
    /\ SmInit
    /\ ignore_case \in BOOLEAN
    /\ wrap_search \in BOOLEAN

SearchNext ==
    \/ \E text \in SearchTexts : search(text)
    \/ \E text \in SearchTexts : search_rev(text)
    \/ \E count \in 0..MaxCount : search_next(count)
    \/ \E count \in 0..MaxCount : search_prev(count)
    \/ \E ic \in BOOLEAN, wrap \in BOOLEAN : SetConfig(ic, wrap)

\* the search manager of a session: any sequence of searches, repeats and
\* configuration changes
SearchSpec == SearchInit /\ [][SearchNext]_vars

(***************************************************************************)
(* What the trace of a call shows.                                         *)
(***************************************************************************)
\* the segments of the line handed to the last call
Segs == SplitOn(inText, ChainSep)

IsParseEv(e) == e.ev = "parse"
IsInvokeEv(e) == e.ev = "invoke"

\* the parse calls of the last run, in order: one per segment dispatched
ParseEvs == SelectSeq(trace, IsParseEv)

\* the handler invocations of the last run, in order
InvokeEvs == SelectSeq(trace, IsInvokeEv)

\* where an exception was raised
RaiseIdx == {i \in DOMAIN trace : trace[i].ev = "raise"}

\* the last call was one of the lenient entry points
Lenient == op \in {"run_safely", "run_safely_init"}

\* the segments dispatched are the first segments of the line, in order
DispatchedInOrder ==
    /\ Len(ParseEvs) <= Len(Segs)
    /\ \A i \in 1..Len(ParseEvs) : ParseEvs[i].text = Segs[i]

\* n arguments are within the arity of the registered command name
WithinArity(name, n) ==
    /\ n >= cmd_dict[name].nargs[1]
    /\ n <= cmd_dict[name].nargs[2]

(***************************************************************************)
(* C1                                                                      *)
(***************************************************************************)
\* C1, as stated: in run_safely and run_safely_init, when a segment of a
\* ';;' chain fails, the segments after the failing one are still run, so
\* every segment of the line is dispatched.
C1_LenientRunsLaterSegments ==
    (Lenient /\ RaiseIdx # {}) => Len(ParseEvs) = Len(Segs)

\* C1, amended: in run_safely and run_safely_init, when a segment of a ';;'
\* chain fails with a command-meta or command-runtime error, the error ends
\* the whole chain: the segments up to the failing one were dispatched in
\* order, nothing is dispatched after the error, and the error is caught and
\* reported instead of propagated.
C1_LenientStopsAtFailure ==
    (Lenient /\ RaiseIdx # {}) =>
        /\ RaiseIdx = {Len(trace)}
        /\ DispatchedInOrder
        /\ raised = NoError
        /\ msgs = <<[err |-> trace[Len(trace)].err,
                     queue |-> (op = "run_safely_init")]>>

\* a lenient call whose chain failed before its last segment
C1_Witness ==
    /\ Lenient
    /\ RaiseIdx # {}
    /\ Len(ParseEvs) < Len(Segs)

(***************************************************************************)
(* C2                                                                      *)
(***************************************************************************)
\* C2: in any sequence of calls, a parse call that fails with
\* NoSuchCommandError leaves the stored (_cmd, _args) as it was before the
\* call; a parse call fails in no other way, so the pair is overwritten only
\* by a parse that succeeds.
C2_FailedParseKeepsState ==
    [][(op' = "parse" /\ pc = "idle")
          => IF raised' = NoSuchCommandError
             THEN _cmd' = _cmd /\ _args' = _args
             ELSE raised' = NoError /\ _cmd' = ret'[1]]_vars

\* a parse that failed after an alias substitution, on a manager that holds
\* the pair of an earlier successful parse
C2_Witness ==
    /\ op = "parse"
    /\ raised = NoSuchCommandError
    /\ hops = 1
    /\ _cmd # NoCmd
    /\ _args # <<>>

(***************************************************************************)
(* C3                                                                      *)
(***************************************************************************)
\* the first word of a text, <<>> when it has none
FirstWord(s) ==
    IF SplitWs(Strip(s), 1) = <<>> THEN <<>> ELSE SplitWs(Strip(s), 1)[1]

\* the leading token of the text parsed is an alias name
TypedAlias == FirstWord(inText) # <<>> /\ FirstWord(inText) \in DOMAIN aliases

\* C3: under every alias table, self-referencing and cyclic ones included,
\* parse makes at most one alias substitution and ends; an alias whose
\* replacement does not begin with a registered command name (another alias
\* name, for one) ends in NoSuchCommandError after that one substitution.
C3_OneAliasHop ==
    op = "parse" =>
        /\ hops <= 1
        /\ TypedAlias =>
              /\ hops = 1
              /\ FirstWord(aliases[FirstWord(inText)]) \notin DOMAIN cmd_dict
                    => raised = NoSuchCommandError

\* a parse of an alias whose replacement begins with an alias name
C3_Witness ==
    /\ op = "parse"
    /\ TypedAlias
    /\ FirstWord(aliases[FirstWord(inText)]) \in DOMAIN aliases
    /\ FirstWord(aliases[FirstWord(inText)]) \notin DOMAIN cmd_dict
    /\ hops = 1
    /\ raised = NoSuchCommandError

(***************************************************************************)
(* C4                                                                      *)
(***************************************************************************)
\* what parse returns for the text parsed, its trailing spaces removed
RetWithoutTrailingSpace ==
    parse(RStrip(inText), TRUE, 0, [cmd |-> NoCmd, args |-> <<>>]).ret

\* the text ends in a space and the resolved command is free-splitting or
\* has fewer tokenized arguments than its minimum arity
TrailingRule ==
    /\ EndsWithSpace(inText)
    /\ \/ cmd_dict[_cmd].split
       \/ Len(_args) < cmd_dict[_cmd].nargs[1]

C5_InvokedWithinArity ==
    op = "run" =>
        \A i \in DOMAIN trace :
            /\ trace[i].ev = "invoke" =>
                  /\ i >= 3
                  /\ trace[i - 2].ev = "parse"
                  /\ trace[i - 1] = CheckEv(trace[i].cmd, trace[i].args)
                  /\ WithinArity(trace[i].cmd, Len(trace[i].args))
            /\ (/\ trace[i].ev = "check"
                /\ ~WithinArity(trace[i].cmd, Len(trace[i].args))) =>
                  /\ Len(trace) = i + 1
                  /\ trace[i + 1] = RaiseEv(ArgumentCountError)
                  /\ raised = ArgumentCountError

\* a run that invoked the handler of one segment and raised
\* ArgumentCountError for the next
C5_Witness ==
    /\ op = "run"
    /\ raised = ArgumentCountError
    /\ Len(InvokeEvs) = 1
    /\ Len(ParseEvs) = 2

(***************************************************************************)
(* C6                                                                      *)
(***************************************************************************)
\* C6: run dispatches the segments of a chain from left to right, each with
\* the count of the call; without an error every segment is invoked, and the
\* first error is the last thing that happens: it leaves run, and no later
\* segment is parsed or invoked.
C6_StrictChainInOrder ==
    op = "run" =>
        /\ DispatchedInOrder
        /\ \A i \in DOMAIN InvokeEvs : InvokeEvs[i].count = inCount
        /\ IF raised = NoError
           THEN /\ RaiseIdx = {}
                /\ Len(ParseEvs) = Len(Segs)
                /\ Len(InvokeEvs) = Len(Segs)
           ELSE /\ RaiseIdx = {Len(trace)}
                /\ trace[Len(trace)].err = raised
                /\ Len(InvokeEvs) >= Len(ParseEvs) - 1

\* a run with a count whose first segment's handler raised, the second
\* segment never parsed
C6_Witness ==
    /\ op = "run"
    /\ inCount = 2
    /\ raised = CommandError
    /\ Len(ParseEvs) = 1
    /\ Len(Segs) = 2

(***************************************************************************)
(* C7                                                                      *)
(***************************************************************************)
\* the flags f and g differ in FindBackward and in nothing else
OnlyBackwardDiffers(f, g) ==
    /\ HasFlag(f, FindBackward) # HasFlag(g, FindBackward)
    /\ HasFlag(f, FindCaseSensitively) = HasFlag(g, FindCaseSensitively)
    /\ HasFlag(f, FindWrapsAroundDocument) = HasFlag(g, FindWrapsAroundDocument)

\* C7: search_prev(count) after a search emits count signals with the stored
\* text and the stored flags, FindBackward alone toggled, and leaves the
\* stored text and flags as they were (emits nothing before any search); a
\* search_next right after it emits the direction of the search itself.
C7_PrevTogglesCopy ==
    [][/\ sop' = "search_prev" =>
            /\ _text' = _text
            /\ _flags' = _flags
            /\ IF _text = NoText THEN emitted' = <<>>
               ELSE /\ Len(emitted') = sCount'
                    /\ \A i \in DOMAIN emitted' :
                          /\ emitted'[i].text = _text
                          /\ OnlyBackwardDiffers(emitted'[i].flags, _flags)
       /\ (sop = "search_prev" /\ sop' = "search_next") =>
            \A i \in DOMAIN emitted' :
                HasFlag(emitted'[i].flags, FindBackward)
                    = HasFlag(searched.flags, FindBackward)]_vars

\* search_prev(2) after a search_rev: two signals, forward, the stored
\* flags still backward
C7_Witness ==
    /\ sop = "search_prev"
    /\ sCount = 2
    /\ Len(emitted) = 2
    /\ HasFlag(_flags, FindBackward)
    /\ ~HasFlag(emitted[1].flags, FindBackward)

(***************************************************************************)
(* C8                                                                      *)
(***************************************************************************)
\* C8: search_next(count) after a search emits exactly count signals, each
\* the stored (text, flags); before any search it emits none; in both cases
\* the stored text and flags are left as they were.
C8_NextRepeatsStored ==
    [][sop' = "search_next" =>
          /\ _text' = _text
          /\ _flags' = _flags
          /\ Len(emitted') = (IF _text = NoText THEN 0 ELSE sCount')
          /\ \A i \in DOMAIN emitted' :
                emitted'[i] = [text |-> _text, flags |-> _flags]]_vars

\* search_next(2) after a search: two signals
C8_Witness ==
    /\ sop = "search_next"
    /\ _text # NoText
    /\ sCount = 2
    /\ Len(emitted) = 2

(***************************************************************************)
(* C9                                                                      *)
(***************************************************************************)
\* C9: search and search_rev emit the clear signal ('', no flags) exactly
\* when a text is stored and differs from the new one, as a signal of its
\* own before the search signal (text, flags); otherwise the search signal
\* is the only one.
C9_ClearBeforeSearch ==
    [][sop' \in {"search", "search_rev"} =>
          IF _text # NoText /\ _text # sText'
          THEN /\ Len(emitted') = 2
               /\ emitted'[1] = [text |-> "", flags |-> 0]
               /\ emitted'[2] = [text |-> sText', flags |-> _flags']
          ELSE /\ Len(emitted') = 1
               /\ emitted'[1] = [text |-> sText', flags |-> _flags']]_vars

\* a search for another text than the stored one: clear, then search
C9_Witness ==
    /\ sop \in {"search", "search_rev"}
    /\ Len(emitted) = 2
    /\ emitted[1] = [text |-> "", flags |-> 0]
    /\ emitted[2].text = "a"

(***************************************************************************)
(* C10                                                                     *)
(***************************************************************************)
\* C10: whatever the configuration has become since, the signals of
\* search_next are those of the search being repeated, and those of
\* search_prev differ from it in the direction alone.
C10_RepeatKeepsSearchFlags ==
    sop \in {"search_next", "search_prev"} =>
        \A i \in DOMAIN emitted :
            /\ emitted[i].text = searched.text
            /\ IF sop = "search_next"
               THEN emitted[i].flags = searched.flags
               ELSE OnlyBackwardDiffers(emitted[i].flags, searched.flags)

\* a search_next after both options were changed since the search
C10_Witness ==
    /\ sop = "search_next"
    /\ emitted # <<>>
    /\ HasFlag(searched.flags, FindCaseSensitively) # ignore_case
    /\ HasFlag(searched.flags, FindWrapsAroundDocument) # wrap_search


(***************************************************************************)
(* C11                                                                     *)
(***************************************************************************)
\* C11: run_safely and run_safely_init propagate no command-meta or
\* command-runtime error; a call that hit such an error reported exactly one
\* message, that error, shown at once by run_safely and queued by
\* run_safely_init; a call that hit no error reported nothing.
C11_LenientReportsOnce ==
    Lenient =>
        /\ raised = NoError
        /\ IF RaiseIdx = {}
           THEN msgs = <<>>
           ELSE /\ Len(msgs) = 1
                /\ msgs[1].err = trace[Len(trace)].err
                /\ Caught(msgs[1].err)
                /\ msgs[1].queue = (op = "run_safely_init")

\* a run_safely_init call whose handler raised CommandError: one queued message
C11_Witness ==
    /\ op = "run_safely_init"
    /\ Len(InvokeEvs) >= 1
    /\ msgs = <<[err |-> CommandError, queue |-> TRUE]>>
    /\ raised = NoError


(***************************************************************************)
(* C12                                                                     *)
(***************************************************************************)
\* ' '.join(ret) parsed by a manager of the same configuration
Replay == parse(Join(ret, <<SP>>), TRUE, 0, [cmd |-> NoCmd, args |-> <<>>])

\* the text holds a quote character
HasQuote(s) == \E i \in DOMAIN s : s[i] = QUOTE

\* C12, as stated: for every text that parses, the returned list joined with
\* single spaces parses again, to the same list.
C12_ReplayIdempotent ==
    (op = "parse" /\ raised = NoError) =>
        /\ Replay.err = NoError
        /\ Replay.ret = ret

\* C12, amended: the returned list joined with single spaces parses again to
\* the same list for every text that parses to a command whose name is not
\* also an alias name and, when that command is free-splitting, holds no
\* quoting character.
C12_ReplayIdempotentUnquoted ==
    (/\ op = "parse"
     /\ raised = NoError
     /\ ret[1] \notin DOMAIN aliases
     /\ cmd_dict[ret[1]].split => ~HasQuote(inText)) =>
        /\ Replay.err = NoError
        /\ Replay.ret = ret

\* an alias typed with an argument and a trailing space, replayed to the
\* same three elements
C12_Witness ==
    /\ op = "parse"
    /\ raised = NoError
    /\ hops = 1
    /\ ret[1] \notin DOMAIN aliases
    /\ ~HasQuote(inText)
    /\ Len(ret) = 3
    /\ ret[3] = <<>>
    /\ Replay.ret = ret


(***************************************************************************)
(* C13                                                                     *)
(***************************************************************************)
NotSpace(c) == ~IsSpace(c)

\* the characters of s that are not whitespace
Squash(s) == SelectSeq(s, NotSpace)

HasSpace(s) == \E i \in DOMAIN s : IsSpace(s[i])

\* a ends s
IsSuffix(a, s) ==
    /\ Len(a) <= Len(s)
    /\ SubSeq(s, Len(s) - Len(a) + 1, Len(s)) = a

\* the arguments are the words of the argument text up to the last one,
\* which is the rest of the text, whitespace included, once most arguments
\* are made
SplitUpTo(most) ==
    /\ targs # <<>>
    /\ Len(targs) <= most
    /\ \A i \in 1..(Len(targs) - 1) : ~HasSpace(targs[i])
    /\ Len(targs) < most => ~HasSpace(targs[Len(targs)])
    /\ IsSuffix(targs[Len(targs)], tparts[2])
    /\ Squash(Join(targs, <<>>)) = Squash(tparts[2])

\* C13, as stated: for a command with split=false and whatever minimum
\* arity, the arguments are never more than the minimum arity, the last one
\* keeping the rest of the argument text.
C13_AtMostMinArgs ==
    (op = "tokenize" /\ ~tcmd.split /\ Len(tparts) = 2) =>
        SplitUpTo(tcmd.nargs[1])

\* C13, amended: for a command with split=false and a minimum arity of at
\* least 1, the arguments are never more than the minimum arity, the last
\* one keeping the rest of the argument text with its whitespace; with a
\* minimum arity of 0 the split has no limit: every word of the argument
\* text is an argument.
C13_AtMostMinArgsFromOne ==
    (op = "tokenize" /\ ~tcmd.split /\ Len(tparts) = 2) =>
        IF tcmd.nargs[1] >= 1
        THEN SplitUpTo(tcmd.nargs[1])
        ELSE /\ SplitUpTo(Len(targs))
             /\ ~HasSpace(targs[Len(targs)])

\* a command of minimum arity 2 or more whose last argument is the rest of
\* the text, whitespace included
C13_Witness ==
    /\ op = "tokenize"
    /\ ~tcmd.split
    /\ tcmd.nargs[1] >= 2
    /\ Len(targs) = tcmd.nargs[1]
    /\ HasSpace(targs[Len(targs)])


(***************************************************************************)
(* C14                                                                     *)
(***************************************************************************)
\* what parse does with the text split_cmdline was called with
SplitParse == parse(inText, TRUE, 0, [cmd |-> NoCmd, args |-> <<>>])

NotEmpty(token) == token # <<>>

\* the tokens are the words of the text, empty tokens apart, and the last
\* token, and it alone, is an empty one after the words of a text that ends
\* in a space
NaiveSplit(tokens, text) ==
    /\ SelectSeq(tokens, NotEmpty) = SplitWs(text, -1)
    /\ EndsWithSpace(text) =>
          /\ tokens # <<>>
          /\ tokens[Len(tokens)] = <<>>
          /\ Len(tokens) >= 2 => tokens[Len(tokens) - 1] # <<>>

\* C14, as stated: split_cmdline never fails with NoSuchCommandError; it
\* returns what parse returns when the leading token resolves, and otherwise
\* a whitespace split of the text that carries one trailing empty token when
\* the text ends in a space.
C14_SplitFallsBackNaively ==
    op = "split_cmdline" =>
        /\ raised = NoError
        /\ IF SplitParse.err = NoError
           THEN ret = SplitParse.ret
           ELSE NaiveSplit(ret, inText)


(***************************************************************************)
(* C15                                                                     *)
(***************************************************************************)
\* C15: whenever parse succeeds, the first element of the returned list is
\* not empty, is the name of a registered command and is the command stored
\* in the manager; when the leading token typed is an alias, it is the
\* command the replacement names.
C15_FirstIsResolvedCommand ==
    (op = "parse" /\ raised = NoError) =>
        /\ ret # <<>>
        /\ ret[1] # <<>>
        /\ ret[1] \in DOMAIN cmd_dict
        /\ ret[1] = _cmd
        /\ TypedAlias => ret[1] = FirstWord(aliases[FirstWord(inText)])

\* an alias typed with an argument: the list starts with the command of the
\* replacement, not with the alias
C15_Witness ==
    /\ op = "parse"
    /\ raised = NoError
    /\ TypedAlias
    /\ Len(ret) >= 2
    /\ ret[1] # FirstWord(inText)
    /\ ret[1] = _cmd


(***************************************************************************)
(* C16                                                                     *)
(***************************************************************************)
\* C16, as stated: after every search / search_rev call the stored flags are
\* rebuilt from nothing: FindCaseSensitively is set exactly when the
\* configuration asks for a case-sensitive search, that is when
\* general/ignore-case is off, FindWrapsAroundDocument exactly when
\* general/wrap-search is on, FindBackward exactly when the call was
\* search_rev, whatever the flags of the search before.
C16_FlagsFollowConfig ==
    sop \in {"search", "search_rev"} =>
        /\ HasFlag(_flags, FindCaseSensitively) = ~ignore_case
        /\ HasFlag(_flags, FindWrapsAroundDocument) = wrap_search
        /\ HasFlag(_flags, FindBackward) = (sop = "search_rev")
        /\ _flags \in 0..7


(***************************************************************************)
(* C17                                                                     *)
(***************************************************************************)
\* the arguments parse stores for the text without its trailing spaces
ArgsWithoutTrailingSpace(text) ==
    parse(RStrip(text), TRUE, 0, [cmd |-> NoCmd, args |-> <<>>]).args

\* C17: the arguments parse stores are those it stores for the text without
\* its trailing spaces, and the list it returns is the command and these
\* arguments, with or without one '' after them; the arguments run hands to
\* the arity check and to the handler are the stored ones, so they are the
\* same for 'cmd arg ' as for 'cmd arg'.
C17_MarkOnlyReturned ==
    /\ (op = "parse" /\ raised = NoError) =>
          /\ _args = ArgsWithoutTrailingSpace(inText)
          /\ ret \in {<<_cmd>> \o _args, <<_cmd>> \o _args \o << <<>> >>}
    /\ op \in {"run", "run_safely", "run_safely_init"} =>
          \A i \in DOMAIN trace :
              /\ trace[i].ev = "check" =>
                    trace[i].args = ArgsWithoutTrailingSpace(trace[i - 1].text)
              /\ trace[i].ev = "invoke" =>
                    /\ trace[i].args = trace[i - 1].args
                    /\ trace[i].args = ArgsWithoutTrailingSpace(trace[i - 2].text)

\* a run of a segment that ends in a space: the handler got the one argument
C17_Witness ==
    /\ op = "run"
    /\ raised = NoError
    /\ \E i \in DOMAIN trace :
          /\ trace[i].ev = "invoke"
          /\ EndsWithSpace(trace[i - 2].text)
          /\ Len(trace[i].args) = 1


(***************************************************************************)
(* C18                                                                     *)
(***************************************************************************)
\* the leading token of the text parsed is an alias name and the name of a
\* registered command
TypedShadowingAlias == TypedAlias /\ FirstWord(inText) \in DOMAIN cmd_dict

\* C18: when the leading token of the text is both an alias name and a
\* registered command name, parse makes the alias substitution, once, and
\* the command it stores and returns is the one the replacement names; the
\* registered command of the name typed is not reached unless the
\* replacement names it.
C18_AliasBeforeRegistry ==
    (op = "parse" /\ TypedShadowingAlias) =>
        /\ hops = 1
        /\ IF FirstWord(aliases[FirstWord(inText)]) \in DOMAIN cmd_dict
           THEN /\ raised = NoError
                /\ _cmd = FirstWord(aliases[FirstWord(inText)])
                /\ ret[1] = _cmd
           ELSE /\ raised = NoSuchCommandError
                /\ _cmd = NoCmd

\* the alias o -> s typed with an argument: s is stored, not o
C18_Witness ==
    /\ op = "parse"
    /\ TypedShadowingAlias
    /\ raised = NoError
    /\ _cmd # FirstWord(inText)
    /\ Len(_args) = 1


(***************************************************************************)
(* C19                                                                     *)
(***************************************************************************)
\* what parse does with one segment
SegParse(seg) == parse(seg, TRUE, 0, [cmd |-> NoCmd, args |-> <<>>])

\* run of the chain segs failed at its k-th segment, from a manager holding
\* (cmd0, args0): the handlers of the k - 1 segments before it were invoked
\* with what these segments parse to, an empty k-th segment failed with
\* NoSuchCommandError, and the manager is left with what the last segment
\* that parses stored
FailedAt(segs, k, invoked, err, cmd0, args0, cmd1, args1) ==
    /\ k \in 1..Len(segs)
    /\ Len(invoked) >= k - 1
    /\ \A i \in 1..(k - 1) :
          /\ invoked[i].cmd = SegParse(segs[i]).cmd
          /\ invoked[i].args = SegParse(segs[i]).args
    /\ Strip(segs[k]) = <<>> => err = NoSuchCommandError
    /\ IF SegParse(segs[k]).err = NoError
       THEN cmd1 = SegParse(segs[k]).cmd /\ args1 = SegParse(segs[k]).args
       ELSE IF k > 1
       THEN cmd1 = SegParse(segs[k - 1]).cmd
                /\ args1 = SegParse(segs[k - 1]).args
       ELSE cmd1 = cmd0 /\ args1 = args0

\* C19: run checks nothing before it starts on a chain: when its k-th
\* segment fails, and an empty segment fails with NoSuchCommandError, the
\* handlers of the segments before it have been invoked and the manager
\* holds the command and arguments of the last segment that parsed; a chain
\* with an empty segment never ends without an error.
C19_NothingUpFront ==
    [][(op' = "run" /\ pc = "idle") =>
          /\ raised' # NoError =>
                FailedAt(SplitOn(inText', ChainSep),
                         Len(SelectSeq(trace', IsParseEv)),
                         SelectSeq(trace', IsInvokeEv), raised',
                         _cmd, _args, _cmd', _args')
          /\ (\E i \in DOMAIN SplitOn(inText', ChainSep) :
                 Strip(SplitOn(inText', ChainSep)[i]) = <<>>) =>
                raised' # NoError]_vars

\* a chain that ends in ';;': the handler of the first segment was invoked,
\* the empty second segment failed, the manager holds the first command
C19_Witness ==
    /\ op = "run"
    /\ raised = NoSuchCommandError
    /\ Len(Segs) = 2
    /\ Segs[2] = <<>>
    /\ Len(InvokeEvs) = 1
    /\ _cmd = InvokeEvs[1].cmd


(***************************************************************************)
(* C20                                                                     *)
(***************************************************************************)
\* C20: a text once stored stays stored: search and search_rev store the
\* text they are called with, the empty one included, and no call, whatever
\* it emits, makes the stored text unset again; search_next and search_prev
\* change neither the stored text nor the stored flags, a text stored or not.
C20_NeverIdleAgain ==
    [][/\ _text # NoText => _text' # NoText
       /\ sop' \in {"search", "search_rev"} =>
             /\ _text' = sText'
             /\ _text' # NoText
       /\ sop' \in {"search_next", "search_prev"} =>
             /\ _text' = _text
             /\ _flags' = _flags]_vars

\* a search for the empty text after another search: the clear signal was
\* emitted, the empty text is stored
C20_Witness ==
    /\ sop \in {"search", "search_rev"}
    /\ sText = ""
    /\ Len(emitted) = 2
    /\ _text = ""

=============================================================================
